---- MODULE Spec2Model ----
(***************************************************************************)
(* The scrape coordinator of simon-lentz/work_python (src/scraper):        *)
(* ProxyManager (web/proxy.py), WebController (web/controller.py),         *)
(* ConnectionData (utils/connection.py), the parts of DockerManager and    *)
(* DriverManager the controller calls, main (main.py), the                  *)
(* get_target_link / startup recursion of TargetManager (etl/target.py),   *)
(* the OCR navigations of a composite target (etl/ocr.py), and the         *)
(* interactions, extractions, pagination and output writing of a page      *)
(* (etl/interaction.py, etl/extraction.py, etl/funcs.py).                  *)
(***************************************************************************)
EXTENDS Integers, Sequences, FiniteSets, TLC

\* ------------------------------------------------------------ bounds
\* usage_limit is drawn from 1..MaxUsageLimit (ProxyConfig: usage_limit > 0).
MaxUsageLimit == 2
\* Cap on the depth of the get_target_link -> startup -> get_target_link
\* recursion (the interpreter's recursion limit).
MaxDepth == 4
\* Cap on the depth of the get_available_proxy -> reload_proxy_pool recursion.
MaxReload == 1
\* Input URLs per target.
NumLinks == 1
\* create_connections is applied to port lists of at most this length.
MaxPorts == 3
\* Images a scraped table holds at most (one OCR navigation each).
MaxImages == 3
\* Rows of a table or of a list handed to write_output.
MaxRows == 2
\* Cells of a row.
MaxCells == 2
\* Supplemental fields of an input line.
MaxSupplemental == 1
\* The largest page number a pagination container shows.
MaxPages == 2
MaxText == 2
MaxExtractions == 2

\* ------------------------------------------------- program constants
retry_limit == 3
max_retries == 2
\* issue_os_table: len(row_data) == 7
OsRowLength == 7
\* stop_container: retry_limit = 3
stop_retry_limit == 3

None == "None"

\* The proxy source file (one endpoint per line); it does not change in a run.
ProxyFile == <<"a", "b">>
Endpoints == {ProxyFile[i] : i \in 1..Len(ProxyFile)}

\* cfg["target"]: name, composite flag, whether startup interactions and
\* per-URL interactions are declared.
Targets ==
  << [name |-> "t1", composite |-> FALSE, startup |-> TRUE, interactions |-> TRUE],
     [name |-> "t2", composite |-> FALSE, startup |-> FALSE, interactions |-> FALSE] >>

\* cfg["target"] of a run with one composite target.
CompositeTargets ==
  << [name |-> "t1", composite |-> TRUE, startup |-> FALSE, interactions |-> FALSE] >>

\* cfg["docker"].ports of the run.
CfgPorts == <<4444, 4445>>

\* Port values the configured port lists are drawn from.
PortValues == {4444, 4445, 65536}
\* Target lists create_connections is applied to.
TargetLists ==
  LET T(n, c) == [name |-> n, composite |-> c, startup |-> FALSE,
                  interactions |-> FALSE] IN
  { <<T("t1", c1)>> : c1 \in BOOLEAN } \cup
  { <<T("t1", c1), T("t2", c2)>> : c1 \in BOOLEAN, c2 \in BOOLEAN }

VARIABLES
  usage_limit,    \* ProxyConfig.usage_limit
  validation,     \* ProxyConfig.validation
  proxy_pool,     \* ProxyManager.proxy_pool: entries in dict insertion order
  ports,          \* cfg["docker"].ports (create_connections pops from it)
  targets,        \* cfg["target"]
  connections,    \* WebController.connections, in dict insertion order
  connected,      \* WebController.connected
  pc,             \* where main is: construct, connect, execute, disconnect, done
  ci,             \* connect: index of the connection being established
  cstep,          \* connect_resources: the operation the loop is at
  successful,     \* connect_resources: the local flag
  ti,             \* execute: index of the target
  li,             \* scrape_target: index of the input URL
  estage,         \* scrape_target: begin, fetch, page, link
  stack,          \* get_target_link frames: <<link, retry_count>>, innermost last
  di,             \* disconnect: index of the connection being released
  \* history
  connect_ok,     \* per connection: what connect_resources returned
  release_called, \* per connection: release_resources was invoked
  quit_tried,     \* per connection: quit_driver was called in release_resources
  cleanup_tried,  \* per connection: cleanup was called in release_resources
  rotations,      \* rotate_proxy calls while the current input URL is processed
  lent,           \* per endpoint: acquisitions minus releases and evictions
  limit_reached,  \* endpoints whose use count reached usage_limit
  relent,         \* endpoints get_available_proxy returned after that
  interrupted,    \* where a keyboard interrupt arrived: none, connect, execute
                  \* and whether one arrived in disconnect
  call,           \* an operation called on its own: its arguments and its outcome
  last,           \* scrape_target: how the latest make_request of the target ended
  url_rotation,   \* per input URL: none, failed (rotate_proxy got no proxy),
                  \* navigated (the URL was navigated to after that)
  nav_count,      \* per connection: navigations completed through the proxy it
                  \* holds, since it got it
  trail,          \* the outermost get_target_link frame: what its handler did
                  \* since its latest UsageError (rotate_proxy, startup)
  begun,          \* execute: the targets read_input was called for, in order,
                  \* and whether it returned
  page,           \* scrape_target: what was done on the page of the latest input
                  \* URL after get_target_link returned
  release_log,    \* per connection: the steps release_resources began and the
                  \* step a keyboard interrupt arrived in
  attempted       \* per connection: the operations connect_resources called,
                  \* in order

vars == << usage_limit, validation, proxy_pool, ports, targets, connections,
           connected, pc, ci, cstep, successful, ti, li, estage, stack, di,
           connect_ok, release_called, quit_tried, cleanup_tried, rotations,
           lent, limit_reached, relent, interrupted, call, last, url_rotation,
           nav_count, trail, begun, page, release_log, attempted >>

\* ------------------------------------------------------------ helpers
Min(a, b) == IF a < b THEN a ELSE b

\* All orderings of the elements of a finite set.
Perms(S) ==
  {s \in [1..Cardinality(S) -> S] : \A i, j \in 1..Cardinality(S) : i # j => s[i] # s[j]}

\* ---------------------------------------------------------- ProxyManager
Entry(ep, usage, in_use) == [ep |-> ep, usage |-> usage, in_use |-> in_use]

Keys(pool) == {pool[i].ep : i \in 1..Len(pool)}

PoolIndex(pool, ep) == CHOOSE i \in 1..Len(pool) : pool[i].ep = ep

\* validate_proxies: with validation the survivors, any subset, in the order the
\* probes complete; the callers decide what happens without validation.
ValidateProxies(proxies) ==
  UNION { Perms(S) : S \in SUBSET proxies }

\* initialize_proxy_pool: the pools ProxyManager.__init__ can produce.
InitializeProxyPool(valid) ==
  LET loaded == IF valid THEN ValidateProxies(Endpoints) ELSE {ProxyFile}
  IN  { [i \in 1..Len(s) |-> Entry(s[i], 0, FALSE)] : s \in loaded }

RemoveProxyFromPool(pool, ep) ==
  SelectSeq(pool, LAMBDA e : e.ep # ep)

\* The first entry below the limit, whether it is in use or not.
FirstAvailableIgnoresInUse(pool, limit) ==
  LET ok == {i \in 1..Len(pool) : pool[i].usage < limit}
  IN  IF ok = {} THEN 0 ELSE CHOOSE i \in ok : \A j \in ok : i <= j

\* The first entry, in insertion order, that is below the limit and not in use
\* (0: none).
FirstAvailable(pool, limit) ==
  LET ok == {i \in 1..Len(pool) : pool[i].usage < limit /\ ~pool[i].in_use}
  IN  IF ok = {} THEN 0 ELSE CHOOSE i \in ok : \A j \in ok : i <= j

RECURSIVE GetAvailableProxy(_, _, _, _)
RECURSIVE ReloadProxyPool(_, _, _, _)

\* get_available_proxy: the set of outcomes [pool, result, reloads]; result is the
\* endpoint returned or the error raised. fuel is the recursion depth left.
GetAvailableProxy(pool, limit, valid, fuel) ==
  LET i == FirstAvailable(pool, limit) IN
  IF i # 0
    THEN { [pool    |-> [pool EXCEPT ![i] = Entry(pool[i].ep, pool[i].usage + 1, TRUE)],
            result  |-> pool[i].ep,
            reloads |-> 0] }
    ELSE ReloadProxyPool(pool, limit, valid, fuel)

\* reload_proxy_pool: file entries that are not pool keys are validated, inserted
\* as (0, False) and get_available_proxy is called again.
ReloadProxyPool(pool, limit, valid, fuel) ==
  LET new_proxies == Endpoints \ Keys(pool) IN
  IF new_proxies = {}
    THEN { [pool |-> pool, result |-> "ProxyReloadError", reloads |-> 1] }
  ELSE IF fuel = 0
    THEN { [pool |-> pool, result |-> "RecursionError", reloads |-> 1] }
  ELSE
    LET orders == IF valid THEN ValidateProxies(new_proxies) ELSE Perms(new_proxies)
    IN  UNION { { [r EXCEPT !.reloads = @ + 1] :
                  r \in GetAvailableProxy(
                          pool \o [i \in 1..Len(s) |-> Entry(s[i], 0, FALSE)],
                          limit, valid, fuel - 1) } : s \in orders }

\* increment_proxy_usage raising only once the count is above usage_limit.
IncrementProxyUsageAboveLimit(pool, limit, proxy) ==
  IF proxy \notin Keys(pool)
    THEN [pool |-> pool, raised |-> FALSE]
    ELSE LET i == PoolIndex(pool, proxy) IN
         IF pool[i].usage <= limit
           THEN [pool |-> [pool EXCEPT ![i] = Entry(proxy, pool[i].usage + 1, TRUE)],
                 raised |-> FALSE]
           ELSE [pool |-> RemoveProxyFromPool(pool, proxy), raised |-> TRUE]

\* increment_proxy_usage without the comparison of usage with usage_limit.
IncrementProxyUsageNoLimit(pool, limit, proxy) ==
  IF proxy \notin Keys(pool)
    THEN [pool |-> pool, raised |-> FALSE]
    ELSE LET i == PoolIndex(pool, proxy) IN
         [pool |-> [pool EXCEPT ![i] = Entry(proxy, pool[i].usage + 1, TRUE)],
          raised |-> FALSE]

\* increment_proxy_usage: [pool, raised]; raised is UsageError.
IncrementProxyUsage(pool, limit, proxy) ==
  IF proxy \notin Keys(pool)
    THEN [pool |-> pool, raised |-> FALSE]
    ELSE LET i == PoolIndex(pool, proxy) IN
         IF pool[i].usage < limit
           THEN [pool |-> [pool EXCEPT ![i] = Entry(proxy, pool[i].usage + 1, TRUE)],
                 raised |-> FALSE]
           ELSE [pool |-> RemoveProxyFromPool(pool, proxy), raised |-> TRUE]

\* release_proxy
ReleaseProxy(pool, limit, proxy) ==
  IF proxy \notin Keys(pool)
    THEN pool
    ELSE LET i == PoolIndex(pool, proxy) IN
         IF pool[i].usage < limit
           THEN [pool EXCEPT ![i] = Entry(proxy, pool[i].usage, FALSE)]
           ELSE RemoveProxyFromPool(pool, proxy)

\* ------------------------------------------------------- ConnectionData
Conn(name, port) ==
  [name |-> name, port |-> port, proxy |-> None, container |-> None, driver |-> None]

CompositeName(name) == name \o "_composite"

\* ------------------------------------------------------- WebController
RECURSIVE CreateConnectionsFrom(_, _, _, _)

\* The loop of create_connections from target i on: ports.pop(0) raises
\* IndexError on an empty list, which the loop body's except logs.
CreateConnectionsFrom(portlist, tgts, i, conns) ==
  IF i > Len(tgts) THEN [connections |-> conns, ports |-> portlist]
  ELSE IF portlist = << >> THEN CreateConnectionsFrom(portlist, tgts, i + 1, conns)
  ELSE
    LET main   == Append(conns, Conn(tgts[i].name, Head(portlist)))
        rest   == Tail(portlist)
    IN  IF tgts[i].composite /\ rest # << >>
          THEN CreateConnectionsFrom(Tail(rest), tgts, i + 1,
                 Append(main, Conn(CompositeName(tgts[i].name), Head(rest))))
          ELSE CreateConnectionsFrom(rest, tgts, i + 1, main)

\* create_connections: [connections, ports], ports being what is left of the list.
CreateConnections(portlist, tgts) ==
  CreateConnectionsFrom(portlist, tgts, 1, << >>)

\* DockerConfig.check_ports: the port lists validation accepts.
CheckPorts(v) ==
  /\ Len(v) # 0
  /\ \A i \in 1..Len(v) : 0 <= v[i] /\ v[i] <= 65535

\* get_connection: the index of the connection of that name (0: None).
GetConnection(conns, name) ==
  IF \E i \in 1..Len(conns) : conns[i].name = name
    THEN CHOOSE i \in 1..Len(conns) : conns[i].name = name
    ELSE 0

\* DriverConfig.proxy (default): create_driver reads connection.proxy.
DriverProxy == TRUE

\* create_driver: whether a session is created; env_ok says whether the remote
\* end accepts one within retry_attempts. Reading an unset proxy raises.
CreateDriver(conn, env_ok) ==
  /\ (DriverProxy => conn.proxy # None)
  /\ env_ok

\* What a navigation of the connection's driver can do, per attempt.
NavScripts(conn) ==
  IF conn.driver = "quit"
    THEN { [i \in 1..(max_retries + 1) |-> "error"] }
    ELSE [1..(max_retries + 1) -> {"ok", "timeout", "error"}]

RECURSIVE AttemptRetriesErrors(_, _, _, _, _)

\* The while loop of make_request with every exception of the navigation
\* handled as a timeout is.
AttemptRetriesErrors(conn, pool, limit, navs, attempt) ==
  LET nav == navs[attempt + 1] IN
  IF nav = "ok"
    THEN IF conn.proxy = None
           THEN [pool |-> pool, result |-> "ValueError", navigations |-> attempt + 1,
                 pauses |-> << >>]
           ELSE LET inc == IncrementProxyUsage(pool, limit, conn.proxy) IN
                [pool |-> inc.pool,
                 result |-> IF inc.raised THEN "UsageError" ELSE "ok",
                 navigations |-> attempt + 1,
                 pauses |-> << >>]
  ELSE IF attempt < max_retries
    THEN LET r == AttemptRetriesErrors(conn, pool, limit, navs, attempt + 1) IN
         [r EXCEPT !.pauses = << (attempt + 1) * 2 >> \o @]
    ELSE [pool |-> pool,
          result |-> IF nav = "timeout" THEN "TimeoutException" ELSE "WebDriverException",
          navigations |-> attempt + 1, pauses |-> << >>]

RECURSIVE Attempt(_, _, _, _, _)

\* The while loop of make_request from the given attempt on; pauses are the
\* arguments of time.sleep, in seconds.
Attempt(conn, pool, limit, navs, attempt) ==
  LET nav == navs[attempt + 1] IN
  IF nav = "ok"
    THEN IF conn.proxy = None
           THEN [pool |-> pool, result |-> "ValueError", navigations |-> attempt + 1,
                 pauses |-> << >>]
           ELSE LET inc == IncrementProxyUsage(pool, limit, conn.proxy) IN
                [pool |-> inc.pool,
                 result |-> IF inc.raised THEN "UsageError" ELSE "ok",
                 navigations |-> attempt + 1,
                 pauses |-> << >>]
  ELSE IF nav = "timeout"
    THEN IF attempt < max_retries
           THEN LET r == Attempt(conn, pool, limit, navs, attempt + 1) IN
                [r EXCEPT !.pauses = << (attempt + 1) * 2 >> \o @]
           ELSE [pool |-> pool, result |-> "TimeoutException", navigations |-> attempt + 1,
                 pauses |-> << >>]
  ELSE [pool |-> pool, result |-> "WebDriverException", navigations |-> attempt + 1,
        pauses |-> << >>]

\* make_request with connection.driver read as None when it is unset.
MakeRequestUncheckedDriver(conn, pool, limit, navs) ==
  Attempt(conn, pool, limit, navs, 0)

\* make_request on a connection: [pool, result, navigations, pauses].
MakeRequest(conn, pool, limit, navs) ==
  IF conn.driver = None
    THEN [pool |-> pool, result |-> "ValueError", navigations |-> 0, pauses |-> << >>]
    ELSE Attempt(conn, pool, limit, navs, 0)

\* The outcomes of make_request on a connection, over what its navigations can do.
MakeRequests(conn, pool, limit) ==
  { MakeRequest(conn, pool, limit, navs) : navs \in NavScripts(conn) }

\* rotate_proxy without the assignment connection.proxy = new_proxy.
RotateProxyKeepsOld(conn, pool, limit, valid, env_ok) ==
  { [conn |-> conn, pool |-> acq.pool,
     acquired |-> IF acq.result \in Endpoints THEN acq.result ELSE None,
     reloads |-> acq.reloads]
    : acq \in GetAvailableProxy(pool, limit, valid, MaxReload) }

\* rotate_proxy: the outcomes [conn, pool, acquired, reloads]; acquired is the
\* endpoint get_available_proxy returned, or None when it raised.
RotateProxy(conn, pool, limit, valid, env_ok) ==
  { LET c1 == IF acq.result \in Endpoints THEN [conn EXCEPT !.proxy = acq.result] ELSE conn
        c2 == IF c1.driver = None THEN c1
              ELSE IF CreateDriver(c1, env_ok) THEN [c1 EXCEPT !.driver = "live"]
              ELSE [c1 EXCEPT !.driver = "quit"]
    IN  [conn |-> c2, pool |-> acq.pool,
         acquired |-> IF acq.result \in Endpoints THEN acq.result ELSE None,
         reloads |-> acq.reloads]
    : acq \in GetAvailableProxy(pool, limit, valid, MaxReload) }

\* release_resources: [conn, pool, quit, cleanup, released, intr, steps]. intr is
\* the step a keyboard interrupt arrives in (none, quit, stop, remove); the
\* result has it when that step was reached, and the steps that were begun.
\* hasattr on a ConnectionData property whose field is unset raises ValueError.
\* cleanup handles an interrupt of stop_container itself: it kills the
\* container, removes it and returns.
ReleaseResources(conn, pool, limit, intr) ==
  LET stop0 == [conn |-> conn, pool |-> pool, quit |-> FALSE, cleanup |-> FALSE,
                released |-> None, intr |-> "none", steps |-> << >>]
  IN
  IF conn.driver = None THEN stop0
  ELSE IF intr = "quit"
    THEN [stop0 EXCEPT !.quit = TRUE, !.intr = "quit", !.steps = << "quit_driver" >>]
  ELSE
    LET c1    == [conn EXCEPT !.driver = "quit"]
        stop1 == [stop0 EXCEPT !.conn = c1, !.quit = TRUE, !.steps = << "quit_driver" >>]
    IN
    IF c1.container = None THEN stop1
    ELSE
      LET c2    == [c1 EXCEPT !.container = "down"]
          stop2 == [stop1 EXCEPT !.conn = c2, !.cleanup = TRUE,
                                 !.intr = IF intr \in {"stop", "remove"} THEN intr ELSE "none",
                                 !.steps = << "quit_driver", "cleanup" >>]
      IN
      IF intr = "remove" THEN stop2
      ELSE IF c2.proxy = None THEN stop2
      ELSE [stop2 EXCEPT !.pool = ReleaseProxy(pool, limit, c2.proxy),
                         !.released = IF c2.proxy \in Keys(pool) THEN c2.proxy ELSE None,
                         !.steps = << "quit_driver", "cleanup", "release_proxy" >>]

\* ------------------------------------------------------------- history
Bump(f, ep, d) == [f EXCEPT ![ep] = @ + d]

\* The history after get_available_proxy ended with the given result.
AfterAcquire(result) ==
  IF result \in Endpoints
    THEN /\ lent' = Bump(lent, result, 1)
         /\ relent' = relent \cup ({result} \cap limit_reached)
    ELSE UNCHANGED << lent, relent >>

\* release_resources has not been called for the connection.
NotReleased == [intr |-> "unset", steps |-> << >>]

\* Nothing has been done on a page.
NoPage == [interaction |-> "none", extracted |-> FALSE, written |-> FALSE]

\* No operation has been called on its own.
NoCall ==
  [op |-> "none", pre |-> << >>, arg |-> None, navs |-> << >>, result |-> None,
   navigations |-> 0, pauses |-> << >>, reloads |-> 0]

\* ------------------------------------------------------------ the run
\* The state after WebController.__init__ for a run on the given targets.
InitRun(tgts) ==
  /\ usage_limit \in 1..MaxUsageLimit
  /\ validation \in BOOLEAN
  /\ proxy_pool \in InitializeProxyPool(validation)
  /\ targets = tgts
  /\ LET made == CreateConnections(CfgPorts, tgts) IN
       /\ connections = made.connections
       /\ ports = made.ports
       /\ connect_ok = [i \in 1..Len(made.connections) |-> "unset"]
       /\ attempted = [i \in 1..Len(made.connections) |-> << >>]
       /\ release_called = [i \in 1..Len(made.connections) |-> FALSE]
       /\ quit_tried = [i \in 1..Len(made.connections) |-> FALSE]
       /\ cleanup_tried = [i \in 1..Len(made.connections) |-> FALSE]
       /\ release_log = [i \in 1..Len(made.connections) |-> NotReleased]
       /\ nav_count = [i \in 1..Len(made.connections) |-> 0]
  /\ connected = FALSE
  /\ pc = "connect"
  /\ ci = 1
  /\ cstep = "proxy"
  /\ successful = TRUE
  /\ ti = 1
  /\ li = 1
  /\ estage = "begin"
  /\ stack = << >>
  /\ di = 1
  /\ rotations = 0
  /\ lent = [ep \in Endpoints |-> 0]
  /\ limit_reached = {}
  /\ relent = {}
  /\ interrupted = {}
  /\ call = NoCall
  /\ last = "none"
  /\ url_rotation = "none"
  /\ trail = << >>
  /\ begun = << >>
  /\ page = NoPage

Init == InitRun(Targets)

cfg_vars == << usage_limit, validation, ports, targets >>
connect_vars == << ci, cstep, successful, connect_ok, attempted >>
execute_vars == << ti, li, estage, stack, rotations >>
release_vars == << di, release_called, quit_tried, cleanup_tried, release_log >>
pool_history == << lent, limit_reached, relent >>
engine_history == << last, url_rotation, nav_count, trail, begun, page >>

\* connect_resources after an operation ended, failed or not: where connect is
\* next. An exception of get_available_proxy is caught in the loop, one of
\* create_container or create_driver in connect_container and connect_driver.
AfterOperationFailureReturns(i, resource, failed) ==
  IF failed \/ resource = "driver" THEN [ci |-> i + 1, cstep |-> "proxy"]
  ELSE [ci |-> i, cstep |-> IF resource = "proxy" THEN "container" ELSE "driver"]

AfterOperation(i, resource, failed) ==
  IF resource = "driver" THEN [ci |-> i + 1, cstep |-> "proxy"]
  ELSE [ci |-> i, cstep |-> IF resource = "proxy" THEN "container" ELSE "driver"]

\* connect_resources, first operation: proxy_manager.get_available_proxy.
ConnectProxy ==
  /\ pc = "connect" /\ ci <= Len(connections) /\ cstep = "proxy"
  /\ \E acq \in GetAvailableProxy(proxy_pool, usage_limit, validation, MaxReload) :
       /\ proxy_pool' = acq.pool
       /\ IF acq.result \in Endpoints
            THEN /\ connections' = [connections EXCEPT ![ci].proxy = acq.result]
                 /\ successful' = TRUE
            ELSE /\ connections' = connections
                 /\ successful' = FALSE
       /\ AfterAcquire(acq.result)
       /\ ci' = AfterOperation(ci, "proxy", acq.result \notin Endpoints).ci
       /\ cstep' = AfterOperation(ci, "proxy", acq.result \notin Endpoints).cstep
  /\ attempted' = [attempted EXCEPT ![ci] = Append(@, "proxy")]
  /\ UNCHANGED << cfg_vars, call, engine_history, connected, pc, connect_ok, execute_vars, release_vars,
                  limit_reached, interrupted >>

\* connect_resources, second operation: connect_container logs a failed start
\* and returns.
ConnectContainer ==
  /\ pc = "connect" /\ ci <= Len(connections) /\ cstep = "container"
  /\ \E started \in BOOLEAN :
       /\ connections' = IF started THEN [connections EXCEPT ![ci].container = "up"]
                         ELSE connections
       /\ ci' = AfterOperation(ci, "container", ~started).ci
       /\ cstep' = AfterOperation(ci, "container", ~started).cstep
  /\ attempted' = [attempted EXCEPT ![ci] = Append(@, "container")]
  /\ UNCHANGED << cfg_vars, call, engine_history, proxy_pool, connected, pc, successful, connect_ok,
                  execute_vars, release_vars, pool_history, interrupted >>

\* connect_resources, third operation and return: connect_driver logs a failed
\* creation and returns. connect goes on to the next connection.
ConnectDriver ==
  /\ pc = "connect" /\ ci <= Len(connections) /\ cstep = "driver"
  /\ \E env_ok \in BOOLEAN :
       connections' = IF CreateDriver(connections[ci], env_ok)
                        THEN [connections EXCEPT ![ci].driver = "live"]
                        ELSE connections
  /\ connect_ok' = [connect_ok EXCEPT ![ci] = IF successful THEN "True" ELSE "False"]
  /\ attempted' = [attempted EXCEPT ![ci] = Append(@, "driver")]
  /\ ci' = AfterOperation(ci, "driver", FALSE).ci
  /\ cstep' = AfterOperation(ci, "driver", FALSE).cstep
  /\ successful' = TRUE
  /\ UNCHANGED << cfg_vars, call, engine_history, proxy_pool, connected, pc, execute_vars, release_vars,
                  pool_history, interrupted >>

\* __enter__ after connect returned.
Enter ==
  /\ pc = "connect" /\ ci > Len(connections)
  /\ connected' = TRUE
  /\ pc' = "execute"
  /\ UNCHANGED << cfg_vars, call, engine_history, proxy_pool, connections, connect_vars, execute_vars,
                  release_vars, pool_history, interrupted >>

\* A keyboard interrupt while connect runs: __enter__ raises, the with statement
\* does not run __exit__, and main's handler logs it.
InterruptConnect ==
  /\ pc = "connect" /\ ci <= Len(connections)
  /\ pc' = "done"
  /\ interrupted' = interrupted \cup {"connect"}
  /\ UNCHANGED << cfg_vars, call, engine_history, proxy_pool, connections, connected, connect_vars,
                  execute_vars, release_vars, pool_history >>

\* startup with the startup sequence omitted.
NeedsStartupNever(t) == FALSE

\* startup returns at once for a target that declares no startup interactions;
\* otherwise it fetches the domain and performs them.
NeedsStartup(t) == t.startup

\* What the handler of the outermost frame has done when rotate_proxy returned
\* and it called startup: the startup sequence of a target that declares none
\* is complete at once.
AfterRotation(t) ==
  IF t.startup THEN << "rotate_proxy" >> ELSE << "rotate_proxy", "startup" >>

\* execute with the try statement around the loop: an exception ends the loop.
SkipTargetLeavesLoop(i) == Len(targets) + 1

\* execute: the except clause is inside the loop over the targets, so after an
\* exception of target i the loop goes on with the next target.
SkipTarget(i) == i + 1

\* execute, one target: read_input, then scrape_target up to its first request.
BeginTarget ==
  /\ pc = "execute" /\ estage = "begin" /\ ti <= Len(targets)
  /\ \E readable \in BOOLEAN :
       /\ begun' = Append(begun, [target |-> ti, read |-> readable])
       /\ IF ~readable
         THEN /\ ti' = SkipTarget(ti)
              /\ UNCHANGED << li, estage, stack >>
         ELSE /\ ti' = ti
              /\ li' = 1
              /\ IF NeedsStartup(targets[ti])
                   THEN /\ stack' = << [link |-> "domain", retry |-> 0] >>
                        /\ estage' = "fetch"
                   ELSE /\ stack' = << >>
                        /\ estage' = "link"
  /\ rotations' = 0
  /\ UNCHANGED << cfg_vars, call, proxy_pool, connections, connected, pc, connect_vars,
                  release_vars, pool_history, interrupted,
                  last, url_rotation, nav_count, trail, page >>

\* scrape_target, the loop over the links: get_target_link(target, link).
BeginLink ==
  /\ pc = "execute" /\ estage = "link" /\ li <= NumLinks
  /\ stack' = << [link |-> "url", retry |-> 0] >>
  /\ estage' = "fetch"
  /\ rotations' = 0
  /\ url_rotation' = "none"
  /\ page' = NoPage
  /\ UNCHANGED << cfg_vars, call, proxy_pool, connections, connected, pc, connect_vars,
                  ti, li, release_vars, pool_history, interrupted, last, nav_count, trail, begun >>

\* The driver of the connection of the target being scraped.
TargetDriver ==
  connections[GetConnection(connections, targets[ti].name)].driver

\* The innermost get_target_link frame is left, by return or by an exception:
\* a frame below it waited in startup, which logs any exception and returns, and
\* goes on with get_target_link(target, link, retry_count + 1); the outermost
\* frame returns to scrape_target, which reads connection.driver (a ValueError
\* when it is unset, logged by the loop) before the interactions and extractions.
LeaveFrame(raised) ==
  LET n == Len(stack) IN
  IF n > 1
    THEN /\ stack' = SubSeq(stack, 1, n - 2)
                       \o << [link |-> stack[n - 1].link, retry |-> stack[n - 1].retry + 1] >>
         /\ trail' = IF n = 2 THEN Append(trail, "startup") ELSE trail
         /\ UNCHANGED << estage, li >>
    ELSE /\ stack' = << >>
         /\ trail' = << >>
         /\ IF stack[1].link = "domain"
              THEN estage' = "link" /\ li' = li
              ELSE IF raised \/ TargetDriver = None
                THEN estage' = "link" /\ li' = li + 1
                ELSE estage' = "page" /\ li' = li

CountRotation ==
  rotations' = IF stack[1].link = "url" THEN Min(rotations + 1, retry_limit + 1)
               ELSE rotations

\* The outcome of make_request and the navigations counted for connection c:
\* driver.get returned when increment_proxy_usage was reached; a UsageError
\* evicted the proxy.
AfterRequest(c, r) ==
  /\ last' = r.result
  /\ nav_count' = [nav_count EXCEPT ![c] =
                     IF r.result = "ok" THEN Min(@ + 1, MaxUsageLimit + 1)
                     ELSE IF r.result = "UsageError" THEN 0
                     ELSE @]

\* Whether the request r of the innermost frame navigated a live driver to an
\* input URL whose rotation had failed.
AfterNavigation(r) ==
  IF /\ url_rotation = "failed" /\ r.navigations > 0
     /\ TargetDriver = "live"
     /\ stack[Len(stack)].link = "url"
    THEN "navigated" ELSE url_rotation

\* get_target_link, one call of make_request and what the frame does with its
\* outcome, up to the next call of make_request.
Fetch ==
  /\ pc = "execute" /\ estage = "fetch" /\ stack # << >>
  /\ LET t   == targets[ti]
         c   == GetConnection(connections, t.name)
         top == stack[Len(stack)]
     IN
     \E r \in MakeRequests(connections[c], proxy_pool, usage_limit) :
       LET p == connections[c].proxy IN
       \/ /\ r.result # "UsageError"
          /\ AfterRequest(c, r)
          /\ proxy_pool' = r.pool
          /\ limit_reached' =
               IF /\ r.result = "ok" /\ p \in Keys(r.pool)
                  /\ r.pool[PoolIndex(r.pool, p)].usage = usage_limit
                 THEN limit_reached \cup {p} ELSE limit_reached
          /\ LeaveFrame(FALSE)
          /\ url_rotation' = AfterNavigation(r)
          /\ UNCHANGED << connections, rotations, lent, relent >>
       \/ /\ r.result = "UsageError" /\ top.retry < retry_limit
          /\ AfterRequest(c, r)
          /\ \E env_ok \in BOOLEAN :
               \E rot \in RotateProxy(connections[c], r.pool, usage_limit, validation, env_ok) :
                 /\ connections' = [connections EXCEPT ![c] = rot.conn]
                 /\ proxy_pool' = rot.pool
                 /\ lent' = IF rot.acquired = None THEN Bump(lent, p, -1)
                            ELSE Bump(Bump(lent, p, -1), rot.acquired, 1)
                 /\ relent' = relent \cup ({rot.acquired} \cap limit_reached)
                 /\ url_rotation' =
                      IF AfterNavigation(r) = "none" /\ stack[1].link = "url"
                         /\ rot.acquired = None
                        THEN "failed" ELSE AfterNavigation(r)
          /\ CountRotation
          /\ IF ~NeedsStartup(t)
               THEN /\ stack' = [stack EXCEPT ![Len(stack)].retry = @ + 1]
                    /\ trail' = IF Len(stack) = 1 THEN AfterRotation(t) ELSE trail
                    /\ UNCHANGED << estage, li >>
               ELSE IF Len(stack) < MaxDepth
                 THEN /\ stack' = Append(stack, [link |-> "domain", retry |-> 0])
                      /\ trail' = IF Len(stack) = 1 THEN AfterRotation(t) ELSE trail
                      /\ UNCHANGED << estage, li >>
                 ELSE LeaveFrame(TRUE)
          /\ UNCHANGED limit_reached
       \/ /\ r.result = "UsageError" /\ top.retry >= retry_limit
          /\ AfterRequest(c, r)
          /\ proxy_pool' = r.pool
          /\ lent' = Bump(lent, p, -1)
          /\ LeaveFrame(TRUE)
          /\ url_rotation' = AfterNavigation(r)
          /\ UNCHANGED << connections, rotations, limit_reached, relent >>
  /\ UNCHANGED << cfg_vars, call, connected, pc, connect_vars, ti, release_vars, interrupted,
                  begun, page >>

\* scrape_target after get_target_link returned: the interactions and the
\* extractions of the link, then the next link. perform_interaction logs every
\* exception of an interaction and returns, so extractions is called whatever
\* the interactions did; it writes the rows its extractions produced. Parsing a table of a composite
\* target calls cusip_ocr / rating_ocr for each image, which navigate the driver
\* of the target's composite connection (ocr_driver.get) when it has a live one;
\* the images are those of the page the request of the link loaded.
ScrapePage ==
  /\ pc = "execute" /\ estage = "page"
  /\ li' = li + 1
  /\ estage' = "link"
  /\ LET oc == GetConnection(connections, CompositeName(targets[ti].name)) IN
       IF /\ targets[ti].composite /\ last = "ok"
          /\ oc # 0 /\ connections[oc].driver = "live"
         THEN \E images \in 0..MaxImages :
                nav_count' = [nav_count EXCEPT ![oc] = Min(@ + images, MaxUsageLimit + 1)]
         ELSE nav_count' = nav_count
  /\ \E outcome \in IF targets[ti].interactions THEN {"ok", "failed"} ELSE {"none"} :
       \E rows \in BOOLEAN :
         page' = [interaction |-> outcome, extracted |-> TRUE, written |-> rows]
  /\ UNCHANGED << cfg_vars, call, proxy_pool, connections, connected, pc, connect_vars,
                  ti, stack, rotations, release_vars, pool_history, interrupted,
                  last, url_rotation, trail, begun >>

\* scrape_target returns: execute goes on to the next target.
EndTarget ==
  /\ pc = "execute" /\ estage = "link" /\ li > NumLinks
  /\ ti' = ti + 1
  /\ estage' = "begin"
  /\ last' = "none"
  /\ url_rotation' = "none"
  /\ page' = NoPage
  /\ UNCHANGED << cfg_vars, call, proxy_pool, connections, connected, pc, connect_vars,
                  li, stack, rotations, release_vars, pool_history, interrupted, nav_count,
                  trail, begun >>

\* execute returns and the with block ends: __exit__ calls disconnect.
Exit ==
  /\ pc = "execute" /\ estage = "begin" /\ ti > Len(targets)
  /\ connected
  /\ pc' = "disconnect"
  /\ UNCHANGED << cfg_vars, call, engine_history, proxy_pool, connections, connected, connect_vars,
                  execute_vars, release_vars, pool_history, interrupted >>

\* A keyboard interrupt while the engine runs passes every handler of the
\* engine and leaves the with block: __exit__ calls disconnect.
InterruptExecute ==
  /\ pc = "execute" /\ ~(estage = "begin" /\ ti > Len(targets))
  /\ connected
  /\ pc' = "disconnect"
  /\ stack' = << >>
  /\ interrupted' = interrupted \cup {"execute"}
  /\ last' = "none"
  /\ url_rotation' = "none"
  /\ trail' = << >>
  /\ page' = NoPage
  /\ UNCHANGED << cfg_vars, call, proxy_pool, connections, connected, connect_vars,
                  ti, li, estage, rotations, release_vars, pool_history, nav_count,
                  begun >>

\* disconnect with the try statement around the loop: a keyboard interrupt ends
\* the loop.
AfterReleaseInterruptEnds(i, intr) ==
  IF intr \in {"quit", "remove"} THEN Len(connections) + 1 ELSE i + 1

\* disconnect: the except clauses are inside the loop over the connections; a
\* keyboard interrupt that left release_resources is logged and the loop
\* continues with the next connection.
AfterRelease(i, intr) == i + 1

\* disconnect, one connection: release_resources, whose exceptions and keyboard
\* interrupts disconnect logs.
Release ==
  /\ pc = "disconnect" /\ di <= Len(connections)
  /\ \E intr \in {"none", "quit", "stop", "remove"} :
       LET r == ReleaseResources(connections[di], proxy_pool, usage_limit, intr) IN
       /\ connections' = [connections EXCEPT ![di] = r.conn]
       /\ proxy_pool' = r.pool
       /\ quit_tried' = [quit_tried EXCEPT ![di] = r.quit]
       /\ cleanup_tried' = [cleanup_tried EXCEPT ![di] = r.cleanup]
       /\ lent' = IF r.released = None THEN lent ELSE Bump(lent, r.released, -1)
       /\ interrupted' = IF r.intr = "none" THEN interrupted
                         ELSE interrupted \cup {"disconnect"}
       /\ release_log' = [release_log EXCEPT ![di] = [intr |-> r.intr, steps |-> r.steps]]
       /\ di' = AfterRelease(di, r.intr)
  /\ release_called' = [release_called EXCEPT ![di] = TRUE]
  /\ UNCHANGED << cfg_vars, call, engine_history, connected, pc, connect_vars, execute_vars,
                  limit_reached, relent >>

\* disconnect returns; main's finally block ends the run.
Done ==
  /\ pc = "disconnect" /\ di > Len(connections)
  /\ pc' = "done"
  /\ UNCHANGED << cfg_vars, call, engine_history, proxy_pool, connections, connected, connect_vars,
                  execute_vars, release_vars, pool_history, interrupted >>

Next ==
  \/ ConnectProxy
  \/ ConnectContainer
  \/ ConnectDriver
  \/ Enter
  \/ InterruptConnect
  \/ BeginTarget
  \/ BeginLink
  \/ Fetch
  \/ ScrapePage
  \/ EndTarget
  \/ Exit
  \/ InterruptExecute
  \/ Release
  \/ Done

Spec == Init /\ [][Next]_vars

\* The run on one composite target: its connection and its composite connection.
InitComposite == InitRun(CompositeTargets)

SpecComposite == InitComposite /\ [][Next]_vars

\* ------------------------------------------- create_connections alone
\* The port lists of the configuration that DockerConfig accepts.
PortLists ==
  { v \in UNION { [1..n -> PortValues] : n \in 0..MaxPorts } : CheckPorts(v) }

\* Before WebController.__init__: an accepted port list and a list of targets.
InitPorts ==
  /\ ports \in PortLists
  /\ targets \in TargetLists
  /\ connections = << >>
  /\ pc = "construct"
  /\ usage_limit = 1
  /\ validation = FALSE
  /\ proxy_pool = << >>
  /\ connected = FALSE
  /\ ci = 1
  /\ cstep = "proxy"
  /\ successful = TRUE
  /\ ti = 1
  /\ li = 1
  /\ estage = "begin"
  /\ stack = << >>
  /\ di = 1
  /\ connect_ok = << >>
  /\ attempted = << >>
  /\ release_called = << >>
  /\ quit_tried = << >>
  /\ cleanup_tried = << >>
  /\ release_log = << >>
  /\ rotations = 0
  /\ lent = [ep \in Endpoints |-> 0]
  /\ limit_reached = {}
  /\ relent = {}
  /\ interrupted = {}
  /\ call = NoCall
  /\ last = "none"
  /\ url_rotation = "none"
  /\ trail = << >>
  /\ begun = << >>
  /\ page = NoPage
  /\ nav_count = << >>

\* WebController.__init__: self.connections = self.create_connections(cfg).
Construct ==
  /\ pc = "construct"
  /\ LET made == CreateConnections(ports, targets) IN
       /\ connections' = made.connections
       /\ ports' = made.ports
  /\ pc' = "constructed"
  /\ UNCHANGED << usage_limit, validation, proxy_pool, targets, connected, call,
                  engine_history,
                  connect_vars, execute_vars, release_vars, pool_history, interrupted >>

NextPorts == Construct

SpecPorts == InitPorts /\ [][NextPorts]_vars

\* ------------------------------ the operations of the pool and make_request
\* The entries an endpoint can have: increment_proxy_usage and
\* get_available_proxy leave (n, True) with 1 <= n <= limit, release_proxy and
\* the loaders leave (n, False) with n < limit.
Entries(ep, limit) ==
  { Entry(ep, n, FALSE) : n \in 0..(limit - 1) } \cup
  { Entry(ep, n, TRUE) : n \in 1..limit }

\* The pools over the endpoints of the file, in every insertion order.
Pools(limit) ==
  UNION { { p \in [1..Len(s) -> UNION { Entries(ep, limit) : ep \in Endpoints }] :
              \A i \in 1..Len(s) : p[i].ep = s[i] }
          : s \in UNION { Perms(S) : S \in SUBSET Endpoints } }

\* The connections make_request can be called on: create_driver needs the proxy,
\* so a connection with a driver has one; rotate_proxy can leave an evicted
\* endpoint as the proxy.
CallConnections ==
  { c \in [name : {"t1"}, port : {4444}, proxy : Endpoints \cup {None},
           container : {None, "up"}, driver : {None, "live", "quit"}] :
      c.driver # None => c.proxy # None }

\* A ProxyManager and one connection, in any state the operations leave them in.
InitCalls ==
  /\ usage_limit \in 1..MaxUsageLimit
  /\ validation \in BOOLEAN
  /\ proxy_pool \in Pools(usage_limit)
  /\ targets = << [name |-> "t1", composite |-> FALSE, startup |-> FALSE,
                    interactions |-> FALSE] >>
  /\ ports = << >>
  /\ \E c \in CallConnections : connections = << c >>
  /\ connected = TRUE
  /\ pc = "execute"
  /\ ci = 2
  /\ cstep = "proxy"
  /\ successful = TRUE
  /\ ti = 1
  /\ li = 1
  /\ estage = "begin"
  /\ stack = << >>
  /\ di = 1
  /\ connect_ok = << "True" >>
  /\ attempted = << << "proxy", "container", "driver" >> >>
  /\ release_called = << FALSE >>
  /\ quit_tried = << FALSE >>
  /\ cleanup_tried = << FALSE >>
  /\ release_log = << NotReleased >>
  /\ rotations = 0
  /\ lent = [ep \in Endpoints |-> 0]
  /\ limit_reached = {}
  /\ relent = {}
  /\ interrupted = {}
  /\ call = NoCall
  /\ last = "none"
  /\ url_rotation = "none"
  /\ trail = << >>
  /\ begun = << >>
  /\ page = NoPage
  /\ nav_count = << 0 >>

calls_unchanged ==
  << cfg_vars, connections, connected, pc, connect_vars, execute_vars, release_vars,
     pool_history, interrupted, engine_history >>

\* proxy_manager.get_available_proxy()
CallGetAvailableProxy ==
  /\ \E acq \in GetAvailableProxy(proxy_pool, usage_limit, validation, MaxReload) :
       /\ proxy_pool' = acq.pool
       /\ call' = [NoCall EXCEPT !.op = "get_available_proxy", !.pre = proxy_pool,
                                 !.result = acq.result, !.reloads = acq.reloads]
  /\ UNCHANGED calls_unchanged

\* controller.make_request(name, url)
CallMakeRequest ==
  /\ \E navs \in NavScripts(connections[1]) :
       LET r == MakeRequest(connections[1], proxy_pool, usage_limit, navs) IN
       /\ proxy_pool' = r.pool
       /\ call' = [NoCall EXCEPT !.op = "make_request", !.pre = proxy_pool,
                                 !.navs = SubSeq(navs, 1, r.navigations),
                                 !.result = r.result,
                                 !.navigations = r.navigations, !.pauses = r.pauses]
  /\ UNCHANGED calls_unchanged

NextCalls ==
  \/ CallGetAvailableProxy
  \/ CallMakeRequest

SpecCalls == InitCalls /\ [][NextCalls]_vars

\* TargetManager.execute on a connected controller in any of those states.
NextEngine ==
  \/ BeginTarget
  \/ BeginLink
  \/ Fetch
  \/ ScrapePage
  \/ EndTarget

SpecEngine == InitCalls /\ [][NextEngine]_vars

\* ------------------------------------------------- the operations of etl
SeqsUpTo(S, n) == UNION { [1..k -> S] : k \in 0..n }

Max(S) == CHOOSE m \in S : \A x \in S : x <= m

\* OutputType
OutputTypes == {"csv", "json", "txt", "pandas"}

\* The lists of rows write_output is called with: a cell is a string or None.
RowLists == SeqsUpTo(SeqsUpTo({"v", None}, MaxCells), MaxRows)

HasNull(row) == \E i \in 1..Len(row) : row[i] = None

\* The number of columns of pd.DataFrame(data): the length of the longest row.
Width(data) == Max({0} \cup {Len(data[i]) : i \in 1..Len(data)})

\* pd.DataFrame fills the cells a shorter row lacks with NaN.
Pad(row, w) == row \o [i \in 1..(w - Len(row)) |-> None]

\* write_output: the rows appended to the sink file.
WriteOutput(data, output_type) ==
  IF data = << >> THEN << >>
  ELSE
    LET w    == Width(data)
        df   == [i \in 1..Len(data) |-> Pad(data[i], w)]
        kept == SelectSeq(df, LAMBDA r : ~HasNull(r))
    IN  IF w = 0 \/ kept = << >> THEN << >>
        ELSE IF output_type = "csv" THEN kept
        ELSE << >>

\* timestamp(): the date as %m/%d/%Y.
Timestamp == "MM/DD/YYYY"

\* Extraction.invalid_output of the extraction.
InvalidOutput == {"n/a"}

\* sanitize_data: None for a text listed in invalid_output.
SanitizeData(text) == IF text \in InvalidOutput THEN None ELSE text

\* ExtractionType, and a value the match statement has no case for.
ExtractionTypes ==
  {"element", "issuer table", "issue scale table", "issue os table", "source", "other"}

\* The element the locator selects: rows of cells, each cell a text (a link for
\* the OS table).
Tables == SeqsUpTo(SeqsUpTo({"v", "n/a"}, MaxCells), MaxRows)

\* The supplemental fields of the input line.
Supplementals == SeqsUpTo({"s"}, MaxSupplemental)

RECURSIVE Flatten(_)
Flatten(table) ==
  IF table = << >> THEN << >> ELSE Head(table) \o Flatten(Tail(table))

\* parse_element: the sanitized text entries of the element, as one list.
ParseElement(table) ==
  LET entries == Flatten(table) IN
  [i \in 1..Len(entries) |-> SanitizeData(entries[i])]

\* issuer_table, issue_scale_table: per tr the sanitized cells (with the links
\* and OCR readings among them), then the timestamp, then the supplemental data.
TableRows(table, supp) ==
  [i \in 1..Len(table) |->
     [j \in 1..Len(table[i]) |-> SanitizeData(table[i][j])] \o << Timestamp >> \o supp]

\* issue_os_table: per tr the links, the timestamp and the supplemental data;
\* rows of another length than OsRowLength are left out.
IssueOsTable(table, supp) ==
  SelectSeq([i \in 1..Len(table) |-> table[i] \o << Timestamp >> \o supp],
            LAMBDA r : Len(r) = OsRowLength)

\* perform_extraction: [returned, rows]; an exception is logged and the
\* function returns None. found: get_element found the element.
PerformExtraction(type, table, supp, found) ==
  LET list(rows) == [returned |-> "list", rows |-> rows] IN
  CASE type = "source" -> list(<< << "page_source" >> >>)
    [] type = "other" -> list(<< >>)
    [] type \notin {"source", "other"} /\ ~found -> [returned |-> "None", rows |-> << >>]
    [] type = "element" /\ found -> list(<< ParseElement(table) >>)
    [] type \in {"issuer table", "issue scale table"} /\ found -> list(TableRows(table, supp))
    [] type = "issue os table" /\ found -> list(IssueOsTable(table, supp))

\* The pagination container of a page: missing, or with a Next button that is
\* enabled, disabled or absent; without a Next button the container itself is
\* clickable or not.
PageStates ==
  { pg \in [container : {"missing", "clickable", "unclickable"},
            next : {"enabled", "disabled", "absent"}] :
      /\ pg.container = "missing" => pg.next = "absent"
      /\ pg.next # "absent" => pg.container = "clickable" }

\* paginate: [raised, max_pages, next_button]. numbers: the integer texts of the
\* a.paginate_button links. next_button is "next", "container" (the element
\* element_to_be_clickable returned for the pagination locator) or None.
Paginate(pg, numbers) ==
  LET m == IF numbers = {} THEN 1 ELSE Max(numbers) IN
  IF pg.container = "missing"
    THEN [raised |-> TRUE, max_pages |-> 0, next_button |-> None]
  ELSE IF pg.next = "disabled"
    THEN [raised |-> FALSE, max_pages |-> m, next_button |-> None]
  ELSE IF pg.next = "enabled"
    THEN [raised |-> FALSE, max_pages |-> m, next_button |-> "next"]
  ELSE IF pg.container = "clickable"
    THEN [raised |-> FALSE, max_pages |-> m, next_button |-> "container"]
  ELSE [raised |-> FALSE, max_pages |-> m, next_button |-> None]

\* The loop of perform_paginated_extraction going one pass too far.
LoopGuardOffByOne(page_count, max_pages) == page_count <= max_pages

\* perform_paginated_extraction: while page_count < max_pages
LoopGuard(page_count, max_pages) == page_count < max_pages

\* The sites a paginated extraction runs on: the page shown first and the pages
\* the clicks lead to.
Sites == [1..(MaxPages + 1) -> PageStates]

\* perform_paginated_extraction, the loop. site[pos] is the page shown;
\* fails_at is the pass in which perform_extraction returns None (0: in none),
\* which all_data.extend raises a TypeError for; stays: a click on the
\* pagination container leaves the page shown. passes counts the calls of
\* perform_extraction, visited the pages whose rows were collected.
RECURSIVE PaginatedLoop(_, _, _, _, _, _, _, _, _)
PaginatedLoop(site, max_pages, fails_at, stays, page_count, pos, next_button, visited, clicks) ==
  LET out(status, passes, v, c, at) ==
        [status |-> status, max_pages |-> max_pages, passes |-> passes,
         visited |-> v, clicks |-> c, pos |-> at]
  IN
  IF ~LoopGuard(page_count, max_pages)
    THEN out("returned", page_count, visited, clicks, pos)
  ELSE IF fails_at = page_count + 1
    THEN out("TypeError", page_count + 1, visited, clicks, pos)
  ELSE IF next_button = None
    THEN out("returned", page_count + 1, Append(visited, pos), clicks, pos)
  ELSE
    LET to == IF next_button = "next" \/ ~stays THEN Min(pos + 1, Len(site)) ELSE pos
        pg == Paginate(site[to], {})
    IN  IF pg.raised
          THEN out("ElementNotFoundException", page_count + 1, Append(visited, pos),
                   clicks + 1, to)
          ELSE PaginatedLoop(site, max_pages, fails_at, stays, page_count + 1, to,
                             pg.next_button, Append(visited, pos), clicks + 1)

\* perform_paginated_extraction
PerformPaginatedExtraction(site, numbers, fails_at, stays) ==
  LET first == Paginate(site[1], numbers) IN
  IF first.raised
    THEN [status |-> "ElementNotFoundException", max_pages |-> 0, passes |-> 0,
          visited |-> << >>, clicks |-> 0, pos |-> 1]
    ELSE PaginatedLoop(site, first.max_pages, fails_at, stays, 0, 1,
                       first.next_button, << >>, 0)

\* The characters of an extracted text: one kept, and those sanitize_data
\* removes or replaces.
Chars == {"x", ",", "\t", "\r"}

\* An extracted text, as the sequence of its characters.
Texts == SeqsUpTo(Chars, MaxText)

\* Extraction.invalid_output: absent (None, the default) or a list of strings.
InvalidOutputs ==
  {[configured |-> FALSE, values |-> {}]} \cup
  {[configured |-> TRUE, values |-> v] : v \in SUBSET {<< "x" >>, << "x", " " >>}}

\* data.replace(",", "").replace("\t", " ").replace("\n", " ").replace("\r", "")
RECURSIVE CleanedData(_)
CleanedData(data) ==
  IF data = << >> THEN << >>
  ELSE LET ch == Head(data) IN
       (IF ch \in {",", "\r"} THEN << >>
        ELSE IF ch \in {"\t", "\n"} THEN << " " >>
        ELSE << ch >>) \o CleanedData(Tail(data))

\* sanitize_data(data, invalid_output): `cleaned_data in invalid_output` raises
\* TypeError when invalid_output is None.
SanitizeDataOf(data, invalid_output) ==
  LET cleaned_data == CleanedData(data) IN
  IF ~invalid_output.configured
    THEN [raised |-> "TypeError", null |-> FALSE, text |-> << >>]
  ELSE IF cleaned_data \in invalid_output.values
    THEN [raised |-> None, null |-> TRUE, text |-> << >>]
  ELSE [raised |-> None, null |-> FALSE, text |-> cleaned_data]

\* No controller has been constructed: one of the functions of etl is called,
\* once, with a page and its arguments.
InitEtl ==
  /\ InitPorts
  /\ ports = CfgPorts
  /\ targets = << [name |-> "t1", composite |-> FALSE, startup |-> FALSE,
                    interactions |-> FALSE] >>

etl_unchanged == << calls_unchanged, proxy_pool >>

\* write_output(name, data, output_type, output_file)
CallWriteOutput ==
  /\ call.op = "none"
  /\ \E data \in RowLists, output_type \in OutputTypes :
       call' = [NoCall EXCEPT !.op = "write_output", !.pre = data, !.arg = output_type,
                              !.result = WriteOutput(data, output_type)]
  /\ UNCHANGED etl_unchanged

\* perform_extraction(driver, extraction, supplemental_data)
CallPerformExtraction ==
  /\ call.op = "none"
  /\ \E type \in ExtractionTypes, table \in Tables, supp \in Supplementals,
        found \in BOOLEAN :
       call' = [NoCall EXCEPT !.op = "perform_extraction", !.pre = table,
                              !.arg = [type |-> type, supplemental_data |-> supp],
                              !.result = PerformExtraction(type, table, supp, found)]
  /\ UNCHANGED etl_unchanged

\* paginate(driver, locator, by_type, wait_interval)
CallPaginate ==
  /\ call.op = "none"
  /\ \E pg \in PageStates, numbers \in SUBSET (1..MaxPages) :
       call' = [NoCall EXCEPT !.op = "paginate", !.pre = pg, !.arg = numbers,
                              !.result = Paginate(pg, numbers)]
  /\ UNCHANGED etl_unchanged

\* perform_paginated_extraction(driver, extraction, supplemental_data)
CallPerformPaginatedExtraction ==
  /\ call.op = "none"
  /\ \E site \in Sites, numbers \in SUBSET (1..MaxPages), fails_at \in 0..MaxPages,
        stays \in BOOLEAN :
       call' = [NoCall EXCEPT !.op = "perform_paginated_extraction", !.pre = site,
                              !.arg = numbers,
                              !.result = PerformPaginatedExtraction(site, numbers,
                                                                    fails_at, stays)]
  /\ UNCHANGED etl_unchanged

\* A declared extraction and how its call ends on the page: perform_extraction
\* returns rows or, after any exception, None; perform_paginated_extraction
\* (pagination_locator set) returns rows or raises.
DeclaredExtractions ==
  {[paginated |-> FALSE, outcome |-> "rows"], [paginated |-> FALSE, outcome |-> "None"],
   [paginated |-> TRUE, outcome |-> "rows"], [paginated |-> TRUE, outcome |-> "raised"]}

\* The loop of extractions from the i-th extraction on. data is the local
\* variable: -1 while unbound, 0 for None, j for the rows the j-th extraction
\* returned; an extraction that raised leaves it as it was. write_output
\* returns at once for None, and reading the unbound variable raises inside
\* the second try statement.
RECURSIVE ExtractionsLoop(_, _, _, _)
ExtractionsLoop(exts, i, data, writes) ==
  IF i > Len(exts) THEN [ran |-> i - 1, writes |-> writes]
  ELSE
    LET data1 == IF exts[i].outcome = "raised" THEN data
                 ELSE IF exts[i].outcome = "None" THEN 0
                 ELSE i
        writes1 == IF data1 > 0 THEN Append(writes, [sink |-> i, by |-> data1])
                   ELSE writes
    IN  ExtractionsLoop(exts, i + 1, data1, writes1)

\* extractions(driver, target, supplemental_data): how many extractions were
\* run, and the rows write_output was given: for which extraction's output
\* file, returned by which extraction.
Extractions(exts) == ExtractionsLoop(exts, 1, -1, << >>)

\* extractions(driver, target, supplemental_data)
CallExtractions ==
  /\ call.op = "none"
  /\ \E exts \in SeqsUpTo(DeclaredExtractions, MaxExtractions) :
       call' = [NoCall EXCEPT !.op = "extractions", !.pre = exts,
                              !.result = Extractions(exts)]
  /\ UNCHANGED etl_unchanged

\* sanitize_data(data, invalid_output)
CallSanitizeData ==
  /\ call.op = "none"
  /\ \E data \in Texts, invalid_output \in InvalidOutputs :
       call' = [NoCall EXCEPT !.op = "sanitize_data", !.pre = data, !.arg = invalid_output,
                              !.result = SanitizeDataOf(data, invalid_output)]
  /\ UNCHANGED etl_unchanged

NextEtl ==
  \/ CallExtractions
  \/ CallSanitizeData
  \/ CallWriteOutput
  \/ CallPerformExtraction
  \/ CallPaginate
  \/ CallPerformPaginatedExtraction

SpecEtl == InitEtl /\ [][NextEtl]_vars

\* ------------------------------------------------- DockerManager.cleanup
\* How a call of the docker client ends: container.stop, container.kill.
StopOutcomes == {"ok", "APIError", "Exception", "KeyboardInterrupt"}
KillOutcomes == {"ok", "APIError"}

\* kill_container: logs and re-raises a ContainerError or APIError.
KillContainer(events, kill) ==
  [events |-> Append(events, "kill"), raised |-> IF kill = "ok" THEN None ELSE kill]

\* remove_container: every error of container.remove is logged.
RemoveContainer(events) == Append(events, "remove")

\* stop_container from the given attempt on: stops[attempt + 1] is how that
\* call of container.stop ends. Only ContainerError and APIError are retried;
\* the last attempt's handler kills the container.
RECURSIVE StopLoop(_, _, _, _)
StopLoop(stops, kill, attempt, events) ==
  IF attempt >= stop_retry_limit THEN [events |-> events, raised |-> None]
  ELSE
    LET outcome == stops[attempt + 1]
        tried   == Append(events, "stop")
    IN
    IF outcome = "ok" THEN [events |-> tried, raised |-> None]
    ELSE IF outcome = "APIError"
      THEN IF attempt < stop_retry_limit - 1
             THEN StopLoop(stops, kill, attempt + 1, tried)
             ELSE LET k == KillContainer(tried, kill) IN
                  IF k.raised # None THEN k
                  ELSE StopLoop(stops, kill, attempt + 1, k.events)
    ELSE [events |-> tried, raised |-> outcome]

StopContainer(stops, kill) == StopLoop(stops, kill, 0, << >>)

\* cleanup's finally clause, entered with what the try statement left.
CleanupFinallyOnReturnOnly(r, remove_on_cleanup) ==
  IF remove_on_cleanup /\ r.raised = None
    THEN [r EXCEPT !.events = RemoveContainer(@)]
    ELSE r

CleanupFinally(r, remove_on_cleanup) ==
  IF remove_on_cleanup THEN [r EXCEPT !.events = RemoveContainer(@)] ELSE r

\* cleanup(container): the calls made on the container, in order, and the
\* exception that leaves cleanup. An Exception of stop_container is logged, a
\* KeyboardInterrupt answered by kill_container.
Cleanup(stops, kill, remove_on_cleanup) ==
  LET s == StopContainer(stops, kill)
      handled == IF s.raised = "KeyboardInterrupt" THEN KillContainer(s.events, kill)
                 ELSE [events |-> s.events, raised |-> None]
  IN  CleanupFinally(handled, remove_on_cleanup)

\* cleanup(container)
CallCleanup ==
  /\ call.op = "none"
  /\ \E stops \in [1..stop_retry_limit -> StopOutcomes], kill \in KillOutcomes,
        remove_on_cleanup \in BOOLEAN :
       call' = [NoCall EXCEPT !.op = "cleanup", !.pre = stops,
                              !.arg = [kill |-> kill, remove_on_cleanup |-> remove_on_cleanup],
                              !.result = Cleanup(stops, kill, remove_on_cleanup)]
  /\ UNCHANGED etl_unchanged

\* No controller has been constructed: cleanup is called, once, on a container.
InitDocker == InitEtl

NextDocker == CallCleanup

SpecDocker == InitDocker /\ [][NextDocker]_vars

\* --------------------------------------------------------------- claims
Held(c) == connections[c].proxy # None

AllReleased ==
  pc = "done" /\ \A c \in 1..Len(connections) : release_called[c]

\* C1: every entry of the pool has 0 <= use_count <= usage_limit, in every
\* state any sequence of pool operations reaches.
C1_UseCountWithinLimit ==
  \A i \in 1..Len(proxy_pool) :
    0 <= proxy_pool[i].usage /\ proxy_pool[i].usage <= usage_limit

\* An entry that increment_proxy_usage has pushed to the limit is in the pool.
C1_Witness ==
  \E i \in 1..Len(proxy_pool) :
    /\ proxy_pool[i].ep \in limit_reached
    /\ proxy_pool[i].usage = usage_limit

\* C2: no two connections whose resources have not been released hold the same
\* proxy endpoint.
C2_NoSharedProxy ==
  \A c1, c2 \in 1..Len(connections) :
    (c1 # c2 /\ ~release_called[c1] /\ ~release_called[c2] /\ Held(c1))
      => connections[c1].proxy # connections[c2].proxy

\* C3: an endpoint whose use count an increment pushed to usage_limit is never
\* returned by a later get_available_proxy.
C3_ExhaustedNeverRelent ==
  relent = {}

\* C4: after a controller lifetime without interrupts every acquisition was
\* followed by exactly one release or eviction, and no pool entry is in use.
C4_ProxyConservation ==
  (AllReleased /\ interrupted = {}) =>
    /\ \A i \in 1..Len(proxy_pool) : ~proxy_pool[i].in_use
    /\ \A ep \in Endpoints : lent[ep] = 0

\* C5: after disconnect has run (without interrupts), every connection's driver
\* had a quit attempted and every connection's container a cleanup attempted.
C5_CleanupTotality ==
  (AllReleased /\ interrupted = {}) =>
    \A c \in 1..Len(connections) :
      /\ connections[c].driver # None => quit_tried[c]
      /\ connections[c].container # None => cleanup_tried[c]

\* C6: when the run has ended, release_resources was invoked for every
\* connection that had a proxy borrowed or a container or driver started.
C6_ReleasedOnEveryExit ==
  pc = "done" =>
    \A c \in 1..Len(connections) :
      (Held(c) \/ connections[c].container # None \/ connections[c].driver # None)
        => release_called[c]

\* C7: every pool entry with in_use = true is the proxy of some connection.
C7_InUseIsReferenced ==
  \A i \in 1..Len(proxy_pool) :
    proxy_pool[i].in_use =>
      \E c \in 1..Len(connections) : connections[c].proxy = proxy_pool[i].ep

\* A rotation has replaced a connection's proxy and the new one is in use.
C7_Witness ==
  /\ pc = "execute" /\ ti <= Len(targets)
  /\ rotations > 0
  /\ \E i \in 1..Len(proxy_pool) :
       /\ proxy_pool[i].in_use
       /\ connections[GetConnection(connections, targets[ti].name)].proxy = proxy_pool[i].ep

\* C8: the ports create_connections assigns to two distinct connections differ.
C8_PortsDistinct ==
  \A c1, c2 \in 1..Len(connections) :
    c1 # c2 => connections[c1].port # connections[c2].port

\* C9: when connect_resources returned True, the connection's port, proxy,
\* container and driver are all set.
C9_SuccessMeansAllSet ==
  \A c \in 1..Len(connections) :
    connect_ok[c] = "True" =>
      /\ connections[c].port \in 0..65535
      /\ connections[c].proxy # None
      /\ connections[c].container # None
      /\ connections[c].driver # None

\* C10: while one input URL is processed, rotate_proxy is invoked at most
\* retry_limit (3) times.
C10_RotationsBounded ==
  rotations <= retry_limit

\* C12: a call of get_available_proxy enters reload_proxy_pool at most once,
\* whatever the file holds and whatever validation answers.
C12_ReloadsAtMostOnce ==
  call.op = "get_available_proxy" => call.reloads <= 1

\* The entries of a pool that get_available_proxy may lend.
Available(pool) ==
  {i \in 1..Len(pool) : pool[i].usage < usage_limit /\ ~pool[i].in_use}

\* C13: when the pool has an entry below the limit and not in use,
\* get_available_proxy returns the first such entry, changes exactly it from
\* (n, False) to (n + 1, True); it never returns an entry that was in use or at
\* the limit.
C13_FirstAvailableLent ==
  call.op = "get_available_proxy" =>
    /\ Available(call.pre) # {} =>
         \E i \in Available(call.pre) :
           /\ \A j \in Available(call.pre) : i <= j
           /\ call.result = call.pre[i].ep
           /\ Len(proxy_pool) = Len(call.pre)
           /\ proxy_pool[i] = Entry(call.pre[i].ep, call.pre[i].usage + 1, TRUE)
           /\ \A k \in 1..Len(call.pre) : k # i => proxy_pool[k] = call.pre[k]
    /\ \A i \in 1..Len(call.pre) :
         call.result = call.pre[i].ep => i \in Available(call.pre)

\* get_available_proxy passed over an entry in use and lent the second one.
C13_Witness ==
  /\ call.op = "get_available_proxy"
  /\ Len(call.pre) = 2
  /\ call.pre[1].in_use /\ call.pre[1].usage < usage_limit
  /\ call.result = call.pre[2].ep

\* C15: one make_request navigates at most 3 times, goes on to the next attempt
\* only after a timeout, pausing 2 s and then 4 s, raises the timeout error
\* after the third timeout, and ends at the first UsageError or other error.
C15_AtMostThreeAttempts ==
  call.op = "make_request" =>
    LET n == call.navigations IN
    /\ n <= 3
    /\ \A i \in 1..(n - 1) : call.navs[i] = "timeout"
    /\ call.pauses = [i \in 1..(n - 1) |-> 2 * i]
    /\ call.result = "TimeoutException" <=> (n = 3 /\ call.navs[3] = "timeout")
    /\ (n >= 1 /\ call.navs[n] = "error") => call.result = "WebDriverException"
    /\ call.result = "UsageError" => call.navs[n] = "ok"

\* A make_request whose three navigations timed out.
C15_Witness ==
  /\ call.op = "make_request"
  /\ call.navigations = 3
  /\ call.pauses = << 2, 4 >>
  /\ call.result = "TimeoutException"

\* C17: make_request on a connection without a driver raises at once: no
\* navigation, no pause, and the pool is as it was.
C17_NoDriverHardError ==
  (call.op = "make_request" /\ connections[1].driver = None) =>
    /\ call.result \notin {"ok", "TimeoutException", "UsageError"}
    /\ call.navigations = 0
    /\ call.pauses = << >>
    /\ proxy_pool = call.pre

\* make_request was called on a connection that has a proxy of the pool and no
\* driver.
C17_Witness ==
  /\ call.op = "make_request"
  /\ connections[1].driver = None
  /\ connections[1].proxy \in Keys(call.pre)

\* The pool {a: (usage_limit - 1, True), b: (0, False)} with a the proxy of the
\* connection, and the first request of an input URL about to be made.
C11_Scenario ==
  /\ usage_limit >= 2
  /\ proxy_pool = << Entry("a", usage_limit - 1, TRUE), Entry("b", 0, FALSE) >>
  /\ connections[1].proxy = "a" /\ connections[1].driver = "live"
  /\ pc = "execute" /\ estage = "fetch"
  /\ stack = << [link |-> "url", retry |-> 0] >>

\* The state the scenario's rotation leaves: b lent to the connection, a gone,
\* the URL about to be requested again.
C11_Rotated ==
  /\ usage_limit >= 2
  /\ proxy_pool = << Entry("b", 1, TRUE) >>
  /\ connections[1].proxy = "b" /\ connections[1].driver = "live"
  /\ pc = "execute" /\ estage = "fetch"
  /\ stack = << [link |-> "url", retry |-> 1] >>

\* C11: with the pool {a: (usage_limit - 1, True), b: (0, False)} and a the
\* connection's proxy, the next request whose navigation completes raises
\* UsageError, after which the connection's proxy is b and a is not in the pool;
\* the request of the same URL that follows succeeds.
C11_ExhaustionThenRotate ==
  [][ /\ (C11_Scenario /\ last' \in {"ok", "UsageError"}) =>
           /\ last' = "UsageError"
           /\ connections'[1].proxy = "b"
           /\ "a" \notin Keys(proxy_pool')
      /\ (C11_Rotated /\ last' \in {"ok", "UsageError"}) => last' = "ok"
    ]_vars

\* C14: a connection whose proxy is lent (in the pool and in use) has completed
\* at most usage_limit navigations through it, requests and OCR navigations alike.
C14_NavigationsWithinLimit ==
  \A c \in 1..Len(connections) :
    ( /\ connections[c].proxy \in Keys(proxy_pool)
      /\ proxy_pool[PoolIndex(proxy_pool, connections[c].proxy)].in_use )
      => nav_count[c] <= usage_limit

\* C16: a make_request of get_target_link that returns adds exactly 1 to the use
\* count of the connection's proxy and changes no other entry; one that raises
\* the timeout error leaves the pool as it was.
C16_RequestFrame ==
  [][ (pc = "execute" /\ estage = "fetch" /\ pc' = "execute") =>
        LET p == connections[GetConnection(connections, targets[ti].name)].proxy IN
        /\ last' = "ok" =>
             /\ p \in Keys(proxy_pool)
             /\ Len(proxy_pool') = Len(proxy_pool)
             /\ \A i \in 1..Len(proxy_pool) :
                  IF proxy_pool[i].ep = p
                    THEN /\ proxy_pool'[i].ep = p
                         /\ proxy_pool'[i].usage = proxy_pool[i].usage + 1
                    ELSE proxy_pool'[i] = proxy_pool[i]
        /\ last' = "TimeoutException" => proxy_pool' = proxy_pool
    ]_vars

\* C18: the first input URL of a target that declares startup interactions is
\* requested only when the startup's request of the domain succeeded. The state
\* is the one in which scrape_target has just called get_target_link for that
\* URL, last being how the startup's request ended, on a connection whose
\* driver is live (the request navigates).
C18_StartupFailureAborts ==
  ( /\ pc = "execute" /\ estage = "fetch" /\ ti <= Len(targets)
    /\ targets[ti].startup /\ li = 1
    /\ stack = << [link |-> "url", retry |-> 0] >>
    /\ TargetDriver = "live" )
    => last = "ok"

\* C19: scrape_target runs the interactions and extractions of an input URL
\* only when the request of that URL succeeded: not after another exception,
\* not after the UsageError of an exceeded retry limit.
C19_FailedUrlSkipped ==
  (pc = "execute" /\ estage = "page") => last = "ok"

\* C20: an input URL whose rotation got no proxy is not navigated to again.
C20_AbandonedAfterFailedRotation ==
  url_rotation # "navigated"

\* C21: the outermost frame requests its URL again (retry counter above 0) only
\* after rotate_proxy and then the startup sequence have run to completion;
\* while the startup re-run is under way the innermost frame is not the
\* outermost one.
C21_RotateStartupRetry ==
  /\ (pc = "execute" /\ estage = "fetch" /\ Len(stack) = 1 /\ stack[1].retry > 0)
       => trail = << "rotate_proxy", "startup" >>
  /\ trail = << "rotate_proxy" >> => Len(stack) > 1

\* C21: the input URL of a target with startup interactions is about to be
\* retried after its startup re-run.
C21_Witness ==
  /\ pc = "execute" /\ estage = "fetch" /\ Len(stack) = 1
  /\ stack[1].link = "url" /\ stack[1].retry > 0
  /\ targets[ti].startup
  /\ trail = << "rotate_proxy", "startup" >>

\* C22: execute calls read_input for the targets in declaration order, each
\* once, and when it has returned it has done so for every target, whichever
\* of them failed.
C22_EveryTargetOnce ==
  /\ Len(begun) <= Len(targets)
  /\ \A i \in 1..Len(begun) : begun[i].target = i
  /\ (pc \in {"disconnect", "done"} /\ interrupted \cap {"connect", "execute"} = {})
       => Len(begun) = Len(targets)

\* C22: execute has returned after the input file of the first target could not
\* be read, and the second target was scraped.
C22_Witness ==
  /\ pc = "disconnect" /\ interrupted = {}
  /\ Len(begun) = 2 /\ ~begun[1].read /\ begun[2].read

\* C23: when a per-URL interaction failed on the page a request loaded, no
\* extraction is run and no row is written for the URL.
C23_FailedInteractionAbandons ==
  (last = "ok" /\ page.interaction = "failed") => ~page.extracted /\ ~page.written

\* C24: write_output with a CSV sink appends every row that has cells and no
\* null among them, and appends no row with a null cell.
C24_RowWrittenIffNoNull ==
  (call.op = "write_output" /\ call.arg = "csv") =>
    /\ \A i \in 1..Len(call.pre) :
         (Len(call.pre[i]) > 0 /\ ~HasNull(call.pre[i]))
           => \E j \in 1..Len(call.result) : call.result[j] = call.pre[i]
    /\ \A j \in 1..Len(call.result) : ~HasNull(call.result[j])

\* C25: every row perform_extraction returns ends with the timestamp followed by
\* the supplemental data.
C25_RowsEndWithTimestamp ==
  call.op = "perform_extraction" =>
    LET supp == call.arg.supplemental_data
        rows == call.result.rows
    IN  \A i \in 1..Len(rows) :
          /\ Len(rows[i]) >= 1 + Len(supp)
          /\ SubSeq(rows[i], Len(rows[i]) - Len(supp), Len(rows[i]))
               = << Timestamp >> \o supp

\* C26: perform_paginated_extraction makes at most max_pages extraction passes,
\* and when it returns it has made max_pages passes or the page it is on has no
\* Next button or a disabled one.
C26_PaginationTerminates ==
  call.op = "perform_paginated_extraction" =>
    LET r == call.result IN
    /\ r.passes <= r.max_pages
    /\ r.status = "returned" =>
         \/ r.passes = r.max_pages
         \/ call.pre[r.pos].next \in {"absent", "disabled"}

\* C26: a paginated extraction over two discovered pages returned after a pass
\* on the first page, a click on Next and a pass on the second page.
C26_Witness ==
  /\ call.op = "perform_paginated_extraction"
  /\ call.result.status = "returned"
  /\ call.result.max_pages = 2
  /\ call.result.visited = << 1, 2 >>
  /\ call.result.clicks >= 1

\* C27: paginate returns no Next button for a container without an
\* a.paginate_button.next element or with a disabled one, and the loop then
\* stops after the page, without a click and without a second pass.
C27_AbsentNextIsNone ==
  /\ (call.op = "paginate" /\ ~call.result.raised
        /\ call.pre.next \in {"absent", "disabled"})
       => call.result.next_button = None
  /\ (call.op = "perform_paginated_extraction" /\ call.result.status = "returned"
        /\ call.pre[1].next \in {"absent", "disabled"})
       => call.result.clicks = 0 /\ call.result.passes <= 1

\* The step of release_resources a keyboard interrupt arrived in.
StepOf(intr) == IF intr = "quit" THEN "quit_driver" ELSE "cleanup"

C30_DriverNeverQuit ==
  pc = "execute" => \A c \in 1..Len(connections) : connections[c].driver # "quit"

\* C31: release_resources performs quit driver, cleanup container, release
\* proxy in this order, and an error raised by one step never prevents the
\* later steps of the same connection, nor the release of another connection.
C31_ErrorNeverPreventsLaterSteps ==
  \A c \in 1..Len(connections) :
    /\ (pc = "done" /\ connected /\ interrupted = {}) => release_called[c]
    /\ (release_called[c] /\ release_log[c].intr = "none") =>
         /\ \E n \in 0..3 :
              release_log[c].steps = SubSeq(<< "quit_driver", "cleanup", "release_proxy" >>, 1, n)
         /\ connections[c].container # None => cleanup_tried[c]
         /\ Held(c) => Len(release_log[c].steps) = 3

\* C32: connect attempts, for every connection in order, the operations proxy,
\* container, driver, all three whatever failed on the same or an earlier
\* connection, and no failure of an operation leaves connect.
C32_ConnectAttemptsAllSteps ==
  LET order == << "proxy", "container", "driver" >> IN
  /\ \A c \in 1..Len(connections) :
       /\ \E n \in 0..3 : attempted[c] = SubSeq(order, 1, n)
       /\ c < ci => attempted[c] = order
       /\ c > ci => attempted[c] = << >>
  /\ (pc # "connect" /\ "connect" \notin interrupted) =>
       /\ connected
       /\ \A c \in 1..Len(connections) : attempted[c] = order

\* connect returned although the first connection got no proxy, no container
\* and no driver: the second connection has all three.
C32_Witness ==
  /\ pc = "execute" /\ Len(connections) = 2
  /\ connect_ok[1] = "False"
  /\ connections[1].proxy = None /\ connections[1].container = None
  /\ connections[1].driver = None
  /\ connections[2].proxy # None /\ connections[2].container = "up"
  /\ connections[2].driver = "live"
  /\ attempted[1] = << "proxy", "container", "driver" >>

\* The number of times x occurs in a sequence.
Occurrences(seq, x) == Cardinality({ i \in 1..Len(seq) : seq[i] = x })

\* C33: cleanup attempts a graceful stop at most 3 times; the container is
\* killed when the third stop attempt failed or a keyboard interrupt arrived
\* during stop, never after a stop attempt succeeded, and always when every
\* stop attempt failed.
C33_KillWhenEveryStopFailed ==
  call.op = "cleanup" =>
    LET events == call.result.events
        n      == Occurrences(events, "stop")
        killed == Occurrences(events, "kill") > 0
    IN
    /\ n <= 3
    /\ (\E i \in 1..n : call.pre[i] = "ok") => ~killed
    /\ killed => \/ n = 3 /\ call.pre[3] # "ok"
                 \/ call.pre[n] = "KeyboardInterrupt"
    /\ (\A i \in 1..n : call.pre[i] # "ok") => killed

\* C34: with remove_on_cleanup configured, cleanup attempts the removal of the
\* container exactly once, after the stop and kill phase, on every path: stop
\* succeeded, all stops failed and the container was killed, the kill failed,
\* a keyboard interrupt arrived during stop.
C34_RemovedExactlyOnce ==
  (call.op = "cleanup" /\ call.arg.remove_on_cleanup) =>
    LET events == call.result.events IN
    /\ Occurrences(events, "remove") = 1
    /\ events[Len(events)] = "remove"
    /\ Occurrences(events, "stop") >= 1

\* A keyboard interrupt arrived during the first stop, the kill failed, and the
\* container's removal was attempted before the error left cleanup.
C34_Witness ==
  /\ call.op = "cleanup" /\ call.arg.remove_on_cleanup
  /\ call.pre[1] = "KeyboardInterrupt" /\ call.arg.kill = "APIError"
  /\ call.result.events = << "stop", "kill", "remove" >>
  /\ call.result.raised = "APIError"

\* The step is a rotate_proxy of the current target's connection (after a
\* UsageError of its request) in which get_available_proxy returned a proxy.
RotationAcquired ==
  /\ pc = "execute" /\ estage = "fetch" /\ stack # << >>
  /\ pc' = "execute" /\ last' = "UsageError"
  /\ stack[Len(stack)].retry < retry_limit
  /\ lent' # Bump(lent, connections[GetConnection(connections, targets[ti].name)].proxy, -1)

\* C35: after rotate_proxy acquired a proxy, the connection's proxy is an
\* endpoint different from the one it held before the rotation, and the
\* connection's port and container are unchanged.
C35_RotationChangesEndpoint ==
  [][ RotationAcquired =>
        LET c == GetConnection(connections, targets[ti].name) IN
        /\ connections'[c].proxy # connections[c].proxy
        /\ connections'[c].port = connections[c].port
        /\ connections'[c].container = connections[c].container ]_vars

\* C36: sanitize_data marks a cell null if and only if its cleaned text is one
\* of the configured invalid sentinels; when invalid_output is absent no cell is
\* marked null and sanitize_data returns the cleaned text without error.
C36_NullIffSentinel ==
  call.op = "sanitize_data" =>
    /\ call.result.raised = None
    /\ call.arg.configured =>
         (call.result.null <=> CleanedData(call.pre) \in call.arg.values)
    /\ ~call.arg.configured => ~call.result.null
    /\ ~call.result.null => call.result.text = CleanedData(call.pre)

\* C37: the rows written to an extraction's output file were produced by that
\* extraction on that URL: when an extraction fails, neither the rows of an
\* earlier extraction nor other stale data are written to its sink, and the
\* remaining extractions of the URL are still run.
C37_RowsWrittenByOwnExtraction ==
  call.op = "extractions" =>
    /\ call.result.ran = Len(call.pre)
    /\ \A w \in 1..Len(call.result.writes) :
         call.result.writes[w].by = call.result.writes[w].sink

\* The connection holds a proxy that get_available_proxy lent to it (at use
\* count 0) and that has not been evicted since; no other connection has it.
FreshlyBorrowed(c) ==
  /\ Held(c)
  /\ connections[c].proxy \in Keys(proxy_pool)
  /\ lent[connections[c].proxy] = 1
  /\ \A d \in 1..Len(connections) : d # c => connections[d].proxy # connections[c].proxy

\* The step is a make_request of the current target's connection.
RequestStep ==
  /\ pc = "execute" /\ estage = "fetch" /\ stack # << >>
  /\ pc' = "execute"

\* C38: a proxy freshly borrowed by get_available_proxy lets its connection
\* complete exactly usage_limit - 1 make_request calls; the next make_request
\* raises UsageError and evicts the proxy. With usage_limit = 1 the first
\* make_request on a freshly borrowed proxy raises UsageError.
C38_RequestsPerBorrowedProxy ==
  [][ LET c == GetConnection(connections, targets[ti].name)
          p == connections[c].proxy
      IN  (RequestStep /\ FreshlyBorrowed(c)) =>
            /\ proxy_pool[PoolIndex(proxy_pool, p)].usage = nav_count[c] + 1
            /\ last' = "ok" => nav_count[c] < usage_limit - 1
            /\ last' = "UsageError" => nav_count[c] = usage_limit - 1
            /\ (last' = "UsageError" /\ ~RotationAcquired) => p \notin Keys(proxy_pool')
            /\ usage_limit = 1 => last' # "ok" ]_vars

\* The connection completed usage_limit - 1 requests through a borrowed proxy
\* (one, with usage_limit = 2), and its next request raised UsageError.
C38_Witness ==
  /\ usage_limit = 2 /\ pc = "execute" /\ last = "UsageError"
  /\ \E ep \in limit_reached : ep \notin Keys(proxy_pool) /\ lent[ep] = 0

\* C39: get_target_link terminates for every URL: for every usage_limit, proxy
\* file and target, the mutual recursion get_target_link -> startup ->
\* get_target_link ends by itself, so the nesting of its frames stays below
\* the depth at which the run cuts the recursion off.
C39_RecursionEndsByItself ==
  Len(stack) < MaxDepth

\* C40: every navigation make_request performs goes through a proxy that is in
\* the pool with in_use = true at that moment: a connection never navigates
\* through a proxy after its eviction, also after the retry limit was exceeded
\* or a rotation failed.
C40_NavigatesThroughLentProxy ==
  [][ (RequestStep /\ last' \in {"ok", "UsageError"}) =>
        LET p == connections[GetConnection(connections, targets[ti].name)].proxy IN
        /\ p \in Keys(proxy_pool)
        /\ proxy_pool[PoolIndex(proxy_pool, p)].in_use ]_vars

====
